---- MODULE Spec2Model ----
(***************************************************************************)
(* Picorules compiler core: compile(ruleblocks, options) as a pipeline of  *)
(* validate, parse, link, transform, generate, manifest.                   *)
(*                                                                         *)
(* Names are sequences of one-character strings, so that toLowerCase,      *)
(* toUpperCase and the name grammar are computed character by character.   *)
(* A ruleblock text is the sequence of its ';'-separated segments; a       *)
(* segment records the textual features the parser tests ('#' prefix,      *)
(* '=>', ':', '.bind()'), the statement pattern it matches, and the groups *)
(* the pattern captures.  arg and ret are the argument and the value of a   *)
(* helper function called on its own.                                      *)
(***************************************************************************)
EXTENDS Integers, Sequences, FiniteSets, TLC

VARIABLES ruleblocks, options, pc, parsed, linked, transformed, sql, result,
          arg, ret

vars == <<ruleblocks, options, pc, parsed, linked, transformed, sql, result,
          arg, ret>>

\* Largest number of ruleblocks in one batch.
MaxBlocks == 3

----------------------------------------------------------------------------
(* Sequences *)

Range(s) == {s[i] : i \in 1..Len(s)}

\* Array.prototype.indexOf; 0 when absent.
IndexOf(s, x) ==
    IF \E i \in 1..Len(s) : s[i] = x
    THEN CHOOSE i \in 1..Len(s) : s[i] = x /\ \A j \in 1..(i - 1) : s[j] # x
    ELSE 0

\* Insertion into a JS Set kept in insertion order: a present value stays put.
SetAdd(s, x) == IF x \in Range(s) THEN s ELSE Append(s, x)

RECURSIVE SetFromSeq(_)
SetFromSeq(s) ==
    IF s = <<>> THEN <<>>
    ELSE SetAdd(SetFromSeq(SubSeq(s, 1, Len(s) - 1)), s[Len(s)])

\* Array.prototype.filter with the predicate given as the set of kept indices.
RECURSIVE FilterIdx(_, _, _)
FilterIdx(s, keep, i) ==
    IF i > Len(s) THEN <<>>
    ELSE (IF i \in keep THEN <<s[i]>> ELSE <<>>) \o FilterIdx(s, keep, i + 1)

BoundedSeq(S, n) == UNION {[1..k -> S] : k \in 0..n}

----------------------------------------------------------------------------
(* Characters and names *)

LowerLetters == <<"a", "b", "c", "o", "r", "s", "t", "u", "x", "y">>
UpperLetters == <<"A", "B", "C", "O", "R", "S", "T", "U", "X", "Y">>
Digits == {"0", "1"}

IsLower(c) == c \in Range(LowerLetters)
IsUpper(c) == c \in Range(UpperLetters)

toLowerChar(c) == IF IsUpper(c) THEN LowerLetters[IndexOf(UpperLetters, c)] ELSE c
toUpperChar(c) == IF IsLower(c) THEN UpperLetters[IndexOf(LowerLetters, c)] ELSE c

toLowerCase(s) == [i \in 1..Len(s) |-> toLowerChar(s[i])]
toUpperCase(s) == [i \in 1..Len(s) |-> toUpperChar(s[i])]

\* z.string().min(1).max(100)
NameMinLen == 1
NameMaxLen == 100

\* /^[a-z_][a-z0-9_]*$/i : the i flag lets both letter cases through.
NameHeadChar(c) == IsLower(c) \/ IsUpper(c) \/ c = "_"
NameTailChar(c) == NameHeadChar(c) \/ c \in Digits

NameRegex(name) ==
    /\ Len(name) >= 1
    /\ NameHeadChar(name[1])
    /\ \A i \in 2..Len(name) : NameTailChar(name[i])

RuleblockInputSchema(rb) ==
    /\ Len(rb.name) >= NameMinLen
    /\ Len(rb.name) <= NameMaxLen
    /\ NameRegex(rb.name)

Dialects == {"oracle", "mssql", "postgresql"}

\* z.nativeEnum(Dialect); the three list options are optional string arrays.
CompilerOptionsSchema(o) == o.dialect \in Dialects

----------------------------------------------------------------------------
(* Segments of a ruleblock text *)

NoName == <<>>

\* Variable names.
vx == <<"x">>
vy == <<"y">>

\* "<var> => rout_<src>.v.val.bind()"
BindTextAs(var, src) ==
    [hash |-> FALSE, arrow |-> TRUE, colon |-> FALSE, bindCall |-> TRUE,
     shape |-> "bind", var |-> var, src |-> src, fn |-> "",
     body |-> <<>>]

\* "x => rout_<src>.v.val.bind()"
BindText(src) == BindTextAs(vx, src)

\* "x => <src>.v.val.bind()" : the rout_ prefix is missing.
BadBindText(src) ==
    [hash |-> FALSE, arrow |-> TRUE, colon |-> FALSE, bindCall |-> TRUE,
     shape |-> "none", var |-> vx, src |-> src, fn |-> "",
     body |-> <<>>]

\* "<var> => eadv.att1.val.<fn>()"
FetchTextAs(var, fn) ==
    [hash |-> FALSE, arrow |-> TRUE, colon |-> FALSE, bindCall |-> FALSE,
     shape |-> "fetch", var |-> var, src |-> NoName, fn |-> fn,
     body |-> <<>>]

\* "x => eadv.att1.val.<fn>()"
FetchText(fn) == FetchTextAs(vx, fn)

\* "<var> :<body>", the body as its sequence of lexemes: '{', '}', '=>', ' '
\* and any other character.
ComputeTextOf(var, body) ==
    [hash |-> FALSE, arrow |-> "=>" \in Range(body), colon |-> TRUE, bindCall |-> FALSE,
     shape |-> "compute", var |-> var, src |-> NoName, fn |-> "",
     body |-> body]

\* "{p => 1}, {=> 0}"
WhenThenElse == <<"{", "p", " ", "=>", " ", "1", "}", ",", " ", "{", "=>", " ", "0", "}">>

\* "<var> : {p => 1}, {=> 0}"
ComputeText(var) == ComputeTextOf(var, WhenThenElse)

\* "#define_ruleblock(a)"
DirectiveText ==
    [hash |-> TRUE, arrow |-> FALSE, colon |-> FALSE, bindCall |-> FALSE,
     shape |-> "none", var |-> NoName, src |-> NoName, fn |-> "",
     body |-> <<>>]

\* "this is invalid syntax"
JunkText ==
    [hash |-> FALSE, arrow |-> FALSE, colon |-> FALSE, bindCall |-> FALSE,
     shape |-> "none", var |-> NoName, src |-> NoName, fn |-> "",
     body |-> <<>>]

\* "x => foo" : an arrow, but not the fetch pattern.
BadFetchText ==
    [hash |-> FALSE, arrow |-> TRUE, colon |-> FALSE, bindCall |-> FALSE,
     shape |-> "none", var |-> vx, src |-> NoName, fn |-> "",
     body |-> <<>>]

\* "x => eadv.att1.val.last().where(dt > '12:00')" : the fetch pattern, with
\* a ':' inside the predicate.
FetchWithColonText ==
    [hash |-> FALSE, arrow |-> TRUE, colon |-> TRUE, bindCall |-> FALSE,
     shape |-> "fetch", var |-> vx, src |-> NoName, fn |-> "last",
     body |-> <<>>]

\* "y : {p => rout_b.v.val.bind()}" : a compute statement that holds '.bind()'.
ComputeWithBindText ==
    [hash |-> FALSE, arrow |-> TRUE, colon |-> TRUE, bindCall |-> TRUE,
     shape |-> "compute", var |-> vy, src |-> NoName, fn |-> "",
     body |-> <<" ", "{", "p", " ", "=>", " ", "b", "}">>]

\* "{=> 0}, {p => 1}", "{=> 0}, {=> 1}", "{p => 1}" and " 1".
ElseThenWhen == <<"{", "=>", " ", "0", "}", ",", " ", "{", "p", " ", "=>", " ", "1", "}">>
ElseElse == <<"{", "=>", " ", "0", "}", ",", " ", "{", "=>", " ", "1", "}">>
WhenOnly == <<"{", "p", " ", "=>", " ", "1", "}">>
NoArms == <<" ", "1">>

----------------------------------------------------------------------------
(* Parsing *)

\* A value, or the message of the Error thrown: its literal head, then the rest.
Ok(v) == [ok |-> TRUE, value |-> v, error |-> <<>>]
Err(m) == [ok |-> FALSE, value |-> <<>>, error |-> <<m>>]

parseBindStatement(stmt) ==
    IF stmt.shape = "bind"
    THEN Ok([ruleType |-> "BIND_STATEMENT", assignedVariable |-> stmt.var,
             sourceRuleblock |-> stmt.src, functionName |-> ""])
    ELSE Err("Invalid bind statement")

\* String.prototype.trim over ' '.
RECURSIVE trimStart(_)
trimStart(s) == IF s # <<>> /\ Head(s) = " " THEN trimStart(Tail(s)) ELSE s

RECURSIVE trimEnd(_)
trimEnd(s) ==
    IF s # <<>> /\ s[Len(s)] = " " THEN trimEnd(SubSeq(s, 1, Len(s) - 1)) ELSE s

trim(s) == trimEnd(trimStart(s))

\* The for loop of splitFunctionParams over the characters from index i;
\* parts is the array it calls result.
RECURSIVE splitLoop(_, _, _, _, _)
splitLoop(params, i, parts, current, depth) ==
    IF i > Len(params) THEN [parts |-> parts, current |-> current]
    ELSE LET char == params[i] IN
         IF char = "(" THEN splitLoop(params, i + 1, parts, Append(current, char), depth + 1)
         ELSE IF char = ")" THEN splitLoop(params, i + 1, parts, Append(current, char), depth - 1)
         ELSE IF char = "," /\ depth = 0
         THEN splitLoop(params, i + 1, Append(parts, trim(current)), <<>>, depth)
         ELSE splitLoop(params, i + 1, parts, Append(current, char), depth)

\* The parameters of a fetch function, each a string.
splitFunctionParams(params) ==
    IF params = <<>> THEN <<>>
    ELSE LET r == splitLoop(params, 1, <<>>, <<>>, 0) IN
         IF trim(r.current) # <<>> THEN Append(r.parts, trim(r.current)) ELSE r.parts

parseFetchStatement(stmt) ==
    IF stmt.shape = "fetch"
    THEN Ok([ruleType |-> "FETCH_STATEMENT", assignedVariable |-> stmt.var,
             sourceRuleblock |-> NoName, functionName |-> stmt.fn])
    ELSE Err("Invalid fetch statement")

\* The least index from i on where s holds lexeme ch; 0 when there is none.
indexFrom(s, ch, i) ==
    IF \E k \in i..Len(s) : s[k] = ch
    THEN CHOOSE k \in i..Len(s) : s[k] = ch /\ \A m \in i..(k - 1) : s[m] # ch
    ELSE 0

\* /\{([^}]*?)=>([^}]*?)\}/ tried at index i with the first '}' and the first
\* '=>' after i given: '{', the shortest run without '}' up to an '=>', the
\* shortest run without '}' up to a '}'.
matchWith(text, i, close, arrowAt) ==
    IF /\ i <= Len(text) /\ text[i] = "{"
       /\ close > 0 /\ arrowAt > 0 /\ arrowAt < close
    THEN [found |-> TRUE, arrowAt |-> arrowAt, lastIndex |-> close + 1,
          groups |-> <<SubSeq(text, i + 1, arrowAt - 1),
                       SubSeq(text, arrowAt + 1, close - 1)>>]
    ELSE [found |-> FALSE, arrowAt |-> 0, lastIndex |-> 0, groups |-> <<>>]

matchAt(text, i) ==
    matchWith(text, i, indexFrom(text, "}", i + 1), indexFrom(text, "=>", i + 1))

\* conditionPattern.exec(text) with the g flag: the match at the least index
\* from lastIndex on where the pattern matches.
RECURSIVE exec(_, _)
exec(text, lastIndex) ==
    IF lastIndex > Len(text) \/ matchAt(text, lastIndex).found
    THEN matchAt(text, lastIndex)
    ELSE exec(text, lastIndex + 1)

\* conditions.push({ predicate: predicate || undefined, returnValue }).
conditionOf(predicate, returnValue) ==
    [hasPredicate |-> predicate # <<>>, predicate |-> predicate,
     returnValue |-> returnValue]

\* The while loop of parseComputeStatement: one condition per match, an empty
\* trimmed predicate becoming undefined.
RECURSIVE conditionsFrom(_, _, _)
conditionsWith(text, conditions, match) ==
    IF ~match.found THEN conditions
    ELSE conditionsFrom(text, match.lastIndex,
             Append(conditions, conditionOf(trim(match.groups[1]),
                                            trim(match.groups[2]))))

conditionsFrom(text, lastIndex, conditions) ==
    conditionsWith(text, conditions, exec(text, lastIndex))

\* parseComputeStatement that returns the rule whatever it found.
parseComputeStatementNoCheck(stmt) ==
    IF stmt.shape # "compute" THEN Err("Invalid compute statement")
    ELSE Ok([ruleType |-> "COMPUTE_STATEMENT", assignedVariable |-> stmt.var,
             sourceRuleblock |-> NoName, functionName |-> "",
             conditions |-> conditionsFrom(stmt.body, 1, <<>>)])

\* The end of parseComputeStatement: no condition is an error.
computeRule(stmt, conditions) ==
    IF Len(conditions) = 0 THEN Err("No conditions found in compute statement")
    ELSE Ok([ruleType |-> "COMPUTE_STATEMENT", assignedVariable |-> stmt.var,
             sourceRuleblock |-> NoName, functionName |-> "",
             conditions |-> conditions])

\* shape "compute": the text starts with "<var> :" (assignMatch).
parseComputeStatement(stmt) ==
    IF stmt.shape # "compute" THEN Err("Invalid compute statement")
    ELSE computeRule(stmt, conditionsFrom(stmt.body, 1, <<>>))

\* The loop of parseRuleblock rejecting a segment no parser claims.
RECURSIVE parseStatementsStrict(_, _, _)
parseStatementsStrict(text, i, rules) ==
    IF i > Len(text) THEN Ok(rules)
    ELSE LET stmt == text[i] IN
         IF stmt.hash THEN parseStatementsStrict(text, i + 1, rules)
         ELSE IF stmt.arrow /\ ~stmt.colon
         THEN LET r == IF stmt.bindCall THEN parseBindStatement(stmt)
                       ELSE parseFetchStatement(stmt) IN
              IF r.ok THEN parseStatementsStrict(text, i + 1, Append(rules, r.value))
              ELSE r
         ELSE IF stmt.colon
         THEN LET r == parseComputeStatement(stmt) IN
              IF r.ok THEN parseStatementsStrict(text, i + 1, Append(rules, r.value))
              ELSE r
         ELSE Err("Invalid statement")

\* The loop of parseRuleblock testing for '.bind()' before it tests for ':'.
RECURSIVE parseStatementsBindFirst(_, _, _)
parseStatementsBindFirst(text, i, rules) ==
    IF i > Len(text) THEN Ok(rules)
    ELSE LET stmt == text[i] IN
         IF stmt.hash THEN parseStatementsBindFirst(text, i + 1, rules)
         ELSE IF stmt.arrow /\ stmt.bindCall
         THEN LET r == parseBindStatement(stmt) IN
              IF r.ok THEN parseStatementsBindFirst(text, i + 1, Append(rules, r.value))
              ELSE r
         ELSE IF stmt.arrow /\ ~stmt.colon
         THEN LET r == parseFetchStatement(stmt) IN
              IF r.ok THEN parseStatementsBindFirst(text, i + 1, Append(rules, r.value))
              ELSE r
         ELSE IF stmt.colon
         THEN LET r == parseComputeStatement(stmt) IN
              IF r.ok THEN parseStatementsBindFirst(text, i + 1, Append(rules, r.value))
              ELSE r
         ELSE parseStatementsBindFirst(text, i + 1, rules)

\* The loop of parseRuleblock over the segments from index i, rules so far.
RECURSIVE parseStatements(_, _, _)
parseStatements(text, i, rules) ==
    IF i > Len(text) THEN Ok(rules)
    ELSE LET stmt == text[i] IN
         IF stmt.hash THEN parseStatements(text, i + 1, rules)
         ELSE IF stmt.arrow /\ ~stmt.colon
         THEN LET r == IF stmt.bindCall THEN parseBindStatement(stmt)
                       ELSE parseFetchStatement(stmt) IN
              IF r.ok THEN parseStatements(text, i + 1, Append(rules, r.value))
              ELSE r
         ELSE IF stmt.colon
         THEN LET r == parseComputeStatement(stmt) IN
              IF r.ok THEN parseStatements(text, i + 1, Append(rules, r.value))
              ELSE r
         ELSE parseStatements(text, i + 1, rules)

\* isActive: z.boolean().default(true), the input validated by the schema.
isActiveOf(input) == IF "isActive" \in DOMAIN input THEN input.isActive ELSE TRUE

parseRuleblock(input) ==
    LET r == parseStatements(input.text, 1, <<>>) IN
    IF r.ok
    THEN Ok([name |-> input.name, isActive |-> isActiveOf(input), rules |-> r.value])
    ELSE r

\* parse(): ruleblocks.map(parseRuleblock); the first throw ends the map.
RECURSIVE parseFrom(_, _, _)
parseFrom(rbs, i, acc) ==
    IF i > Len(rbs) THEN Ok(acc)
    ELSE LET r == parseRuleblock(rbs[i]) IN
         IF r.ok THEN parseFrom(rbs, i + 1, Append(acc, r.value)) ELSE r

parse(rbs) == parseFrom(rbs, 1, <<>>)

----------------------------------------------------------------------------
(* Linking: dependency graph, cycle detection, topological sort *)

\* The sourceRuleblock of every bind rule, in rule order, as a JS Set.
RECURSIVE bindSources(_, _)
bindSources(rules, i) ==
    IF i > Len(rules) THEN <<>>
    ELSE (IF rules[i].ruleType = "BIND_STATEMENT"
          THEN <<rules[i].sourceRuleblock>> ELSE <<>>) \o bindSources(rules, i + 1)

ruleDeps(rb) == SetFromSeq(bindSources(rb.rules, 1))

\* Second loop of buildDependencyGraph: edges.set(rb.name, deps) when deps is
\* not empty, so a later ruleblock of the same name replaces the entry.
RECURSIVE buildEdges(_, _, _)
buildEdges(rbs, i, edges) ==
    IF i > Len(rbs) THEN edges
    ELSE LET deps == ruleDeps(rbs[i]) IN
         buildEdges(rbs, i + 1,
                    IF Len(deps) > 0 THEN [edges EXCEPT ![rbs[i].name] = deps]
                    ELSE edges)

\* A Map is its keys in insertion order plus the mapping.
buildDependencyGraph(rbs) ==
    LET keys == SetFromSeq([i \in 1..Len(rbs) |-> rbs[i].name]) IN
    [nodes |-> keys,
     edges |-> buildEdges(rbs, 1, [n \in Range(keys) |-> <<>>])]

\* graph.edges.get(node) || new Set()
edgesGet(graph, node) ==
    IF node \in DOMAIN graph.edges THEN graph.edges[node] ELSE <<>>

RECURSIVE dfs(_, _, _)
RECURSIVE dfsDeps(_, _, _, _)

\* st = [visited, recursionStack, path, cycles, found]
dfs(graph, node, st) ==
    LET st1 == [st EXCEPT !.visited = @ \cup {node},
                          !.recursionStack = @ \cup {node},
                          !.path = Append(@, node)]
        r == dfsDeps(graph, edgesGet(graph, node), 1, st1)
    IN IF r.found THEN r
       ELSE [r EXCEPT !.recursionStack = @ \ {node},
                      !.path = SubSeq(@, 1, Len(@) - 1)]

dfsDeps(graph, deps, i, st) ==
    IF i > Len(deps) THEN st
    ELSE LET dep == deps[i] IN
         IF dep \notin st.visited
         THEN LET r == dfs(graph, dep, st) IN
              IF r.found THEN r ELSE dfsDeps(graph, deps, i + 1, r)
         ELSE IF dep \in st.recursionStack
         THEN [st EXCEPT !.cycles = SubSeq(st.path, IndexOf(st.path, dep), Len(st.path))
                                    \o <<dep>>,
                         !.found = TRUE]
         ELSE dfsDeps(graph, deps, i + 1, st)

RECURSIVE detectFrom(_, _, _)
detectFrom(graph, i, st) ==
    IF i > Len(graph.nodes) THEN st
    ELSE IF graph.nodes[i] \notin st.visited
    THEN LET r == dfs(graph, graph.nodes[i], [st EXCEPT !.path = <<>>]) IN
         IF r.found THEN r ELSE detectFrom(graph, i + 1, r)
    ELSE detectFrom(graph, i + 1, st)

\* The reported cycle, or <<>> for null.
detectCircularDependencies(graph) ==
    detectFrom(graph, 1, [visited |-> {}, recursionStack |-> {}, path |-> <<>>,
                          cycles |-> <<>>, found |-> FALSE]).cycles

\* new Map(ruleblocks.map(rb => [rb.name, rb])): the last of a name wins.
rbMapGet(rbs, name) ==
    rbs[CHOOSE i \in 1..Len(rbs) :
            rbs[i].name = name /\ \A j \in (i + 1)..Len(rbs) : rbs[j].name # name]

RECURSIVE visit(_, _, _, _)
RECURSIVE visitDeps(_, _, _, _, _)

\* visit that places a ruleblock before its dependencies instead of after.
visitPlacesFirst(graph, rbs, name, st) ==
    IF name \in st.visited THEN st
    ELSE LET st1 == [st EXCEPT !.visited = @ \cup {name}]
             st2 == IF \E k \in 1..Len(rbs) : rbs[k].name = name
                    THEN [st1 EXCEPT !.sorted = Append(@, rbMapGet(rbs, name))]
                    ELSE st1
         IN visitDeps(graph, rbs, edgesGet(graph, name), 1, st2)

\* st = [visited, sorted]
visit(graph, rbs, name, st) ==
    IF name \in st.visited THEN st
    ELSE LET r == visitDeps(graph, rbs, edgesGet(graph, name), 1,
                            [st EXCEPT !.visited = @ \cup {name}])
         IN IF \E k \in 1..Len(rbs) : rbs[k].name = name
            THEN [r EXCEPT !.sorted = Append(@, rbMapGet(rbs, name))]
            ELSE r

visitDeps(graph, rbs, deps, i, st) ==
    IF i > Len(deps) THEN st
    ELSE visitDeps(graph, rbs, deps, i + 1, visit(graph, rbs, deps[i], st))

\* The final loop of topologicalSort walking the input from its last ruleblock.
RECURSIVE visitFromLast(_, _, _, _)
visitFromLast(graph, rbs, i, st) ==
    IF i > Len(rbs) THEN st
    ELSE visitFromLast(graph, rbs, i + 1,
                       visit(graph, rbs, rbs[Len(rbs) + 1 - i].name, st))

RECURSIVE visitFrom(_, _, _, _)
visitFrom(graph, rbs, i, st) ==
    IF i > Len(rbs) THEN st
    ELSE visitFrom(graph, rbs, i + 1, visit(graph, rbs, rbs[i].name, st))

topologicalSort(rbs) ==
    LET graph == buildDependencyGraph(rbs)
        cycles == detectCircularDependencies(graph)
    IN IF cycles # <<>>
       THEN [ok |-> FALSE, value |-> <<>>,
             error |-> <<"Circular dependency", " detected: ", cycles>>]
       ELSE [ok |-> TRUE,
             value |-> visitFrom(graph, rbs, 1, [visited |-> {}, sorted |-> <<>>]).sorted,
             error |-> <<>>]

\* link(): resolveReferences only fills the references field of each rule,
\* which the model does not carry; the order comes from topologicalSort.
link(rbs) == topologicalSort(rbs)

----------------------------------------------------------------------------
(* Transformation: subset selection and pruning *)

\* An optional string[] option: omitted, or given with its list.
Omitted == [given |-> FALSE, list |-> <<>>]
Given(l) == [given |-> TRUE, list |-> l]

\* !x || x.length === 0
NoneOrEmpty(opt) == ~opt.given \/ Len(opt.list) = 0

lowerAll(names) == [i \in 1..Len(names) |-> toLowerCase(names[i])]

\* selectSubset without its early return for an empty list.
selectSubsetNoGuard(rbs, subset) ==
    LET subsetSet == Range(lowerAll(subset.list)) IN
    FilterIdx(rbs, {i \in 1..Len(rbs) : toLowerCase(rbs[i].name) \in subsetSet}, 1)

selectSubset(rbs, subset) ==
    IF NoneOrEmpty(subset) THEN rbs
    ELSE LET subsetSet == Range(lowerAll(subset.list)) IN
         FilterIdx(rbs, {i \in 1..Len(rbs) : toLowerCase(rbs[i].name) \in subsetSet}, 1)

\* depMap.set(rb.name.toLowerCase(), deps) for every ruleblock in turn: a later
\* ruleblock with the same lowercased name replaces the entry.
RECURSIVE buildDepEntries(_, _, _)
buildDepEntries(rbs, i, map) ==
    IF i > Len(rbs) THEN map
    ELSE buildDepEntries(rbs, i + 1,
            [map EXCEPT ![toLowerCase(rbs[i].name)] =
                SetFromSeq(lowerAll(bindSources(rbs[i].rules, 1)))])

buildDependencyMap(rbs) ==
    LET keys == SetFromSeq([i \in 1..Len(rbs) |-> toLowerCase(rbs[i].name)]) IN
    [keys |-> keys, map |-> buildDepEntries(rbs, 1, [k \in Range(keys) |-> <<>>])]

\* The deps of queue head not yet in the set, in Set order.
RECURSIVE notIn(_, _, _)
notIn(deps, i, seen) ==
    IF i > Len(deps) THEN <<>>
    ELSE (IF deps[i] \in seen THEN <<>> ELSE <<deps[i]>>) \o notIn(deps, i + 1, seen)

RECURSIVE ancestorsLoop(_, _, _)
ancestorsLoop(queue, ancestors, depMap) ==
    IF queue = <<>> THEN ancestors
    ELSE LET current == Head(queue) IN
         IF current \in ancestors THEN ancestorsLoop(Tail(queue), ancestors, depMap)
         ELSE LET anc == ancestors \cup {current}
                  deps == IF current \in DOMAIN depMap.map THEN depMap.map[current]
                          ELSE <<>>
              IN ancestorsLoop(Tail(queue) \o notIn(deps, 1, anc), anc, depMap)

findAncestors(ruleblockNames, depMap) ==
    ancestorsLoop(lowerAll(ruleblockNames), {}, depMap)

\* reverseDeps.get(dep): the keys whose deps hold dep, in entry order.
RECURSIVE dependentsOf(_, _, _)
dependentsOf(depMap, dep, i) ==
    IF i > Len(depMap.keys) THEN <<>>
    ELSE (IF dep \in Range(depMap.map[depMap.keys[i]]) THEN <<depMap.keys[i]>> ELSE <<>>)
         \o dependentsOf(depMap, dep, i + 1)

\* The inner for loop: add and enqueue each dependent not yet a descendant.
RECURSIVE addDependents(_, _, _, _)
addDependents(dependents, i, queue, descendants) ==
    IF i > Len(dependents) THEN [queue |-> queue, descendants |-> descendants]
    ELSE IF dependents[i] \in descendants
    THEN addDependents(dependents, i + 1, queue, descendants)
    ELSE addDependents(dependents, i + 1, Append(queue, dependents[i]),
                       descendants \cup {dependents[i]})

RECURSIVE descendantsLoop(_, _, _)
descendantsLoop(queue, descendants, depMap) ==
    IF queue = <<>> THEN descendants
    ELSE LET r == addDependents(dependentsOf(depMap, Head(queue), 1), 1,
                                Tail(queue), descendants)
         IN descendantsLoop(r.queue, r.descendants, depMap)

findDescendants(ruleblockNames, depMap) ==
    descendantsLoop(lowerAll(ruleblockNames), Range(lowerAll(ruleblockNames)), depMap)

\* pruneRuleblocks returning the kept ruleblocks last first.
pruneRuleblocksLastFirst(rbs, pruneInputs, pruneOutputs) ==
    IF NoneOrEmpty(pruneInputs) /\ NoneOrEmpty(pruneOutputs) THEN rbs
    ELSE LET depMap == buildDependencyMap(rbs)
             toKeep1 == IF ~NoneOrEmpty(pruneOutputs)
                        THEN findAncestors(pruneOutputs.list, depMap) ELSE {}
             toKeep == IF ~NoneOrEmpty(pruneInputs)
                       THEN LET descendants == findDescendants(pruneInputs.list, depMap) IN
                            IF Cardinality(toKeep1) > 0
                            THEN {n \in toKeep1 : n \in descendants}
                            ELSE descendants
                       ELSE toKeep1
             kept == FilterIdx(rbs, {i \in 1..Len(rbs) : toLowerCase(rbs[i].name) \in toKeep}, 1)
         IN [k \in 1..Len(kept) |-> kept[Len(kept) + 1 - k]]

pruneRuleblocks(rbs, pruneInputs, pruneOutputs) ==
    IF NoneOrEmpty(pruneInputs) /\ NoneOrEmpty(pruneOutputs) THEN rbs
    ELSE LET depMap == buildDependencyMap(rbs)
             toKeep1 == IF ~NoneOrEmpty(pruneOutputs)
                        THEN findAncestors(pruneOutputs.list, depMap) ELSE {}
             toKeep == IF ~NoneOrEmpty(pruneInputs)
                       THEN LET descendants == findDescendants(pruneInputs.list, depMap) IN
                            IF Cardinality(toKeep1) > 0
                            THEN {n \in toKeep1 : n \in descendants}
                            ELSE descendants
                       ELSE toKeep1
         IN FilterIdx(rbs, {i \in 1..Len(rbs) : toLowerCase(rbs[i].name) \in toKeep}, 1)

\* transform pruning the linked list before it selects the subset.
transformPruneFirst(rbs, o) ==
    LET afterPrune == IF o.pruneInputs.given \/ o.pruneOutputs.given
                      THEN pruneRuleblocks(rbs, o.pruneInputs, o.pruneOutputs)
                      ELSE rbs
    IN IF o.subset.given THEN selectSubset(afterPrune, o.subset) ELSE afterPrune

\* includeInactive: z.boolean().optional().default(false).
includeInactiveOf(o) ==
    IF "includeInactive" \in DOMAIN o THEN o.includeInactive ELSE FALSE

\* transform leaving out the inactive ruleblocks unless includeInactive is set.
transformDropsInactive(rbs, o) ==
    LET active == FilterIdx(rbs, {i \in 1..Len(rbs) : rbs[i].isActive \/ includeInactiveOf(o)}, 1)
        afterSubset == IF o.subset.given THEN selectSubset(active, o.subset) ELSE active
    IN IF o.pruneInputs.given \/ o.pruneOutputs.given
       THEN pruneRuleblocks(afterSubset, o.pruneInputs, o.pruneOutputs)
       ELSE afterSubset

\* An array, even an empty one, is truthy.
transform(rbs, o) ==
    LET afterSubset == IF o.subset.given THEN selectSubset(rbs, o.subset) ELSE rbs IN
    IF o.pruneInputs.given \/ o.pruneOutputs.given
    THEN pruneRuleblocks(afterSubset, o.pruneInputs, o.pruneOutputs)
    ELSE afterSubset

----------------------------------------------------------------------------
(* SQL generation *)

\* Keys of functionMap in generateSqlForRuleblock.
SupportedFunctions ==
    {"last", "first", "count", "sum", "avg", "min", "max", "median",
     "distinct_count", "nth", "lastdv", "firstdv", "maxldv", "minldv",
     "serialize", "serializedv", "serializedv2", "regr_slope", "regr_intercept",
     "regr_r2", "exists", "stats_mode", "minfdv", "serialize2",
     "max_neg_delta_dv", "temporal_regularity"}

\* DV_FUNCTIONS holding the first two-column functions only.
DV_FUNCTIONS_LastFirst == {"lastdv", "firstdv"}

\* The function names held by DV_FUNCTIONS.
DV_FUNCTIONS == {"lastdv", "firstdv", "maxldv", "minldv", "minfdv", "max_neg_delta_dv"}

\* The fetch templates that select <var>_val and <var>_dt.
TwoColumnTemplates ==
    {"lastdv", "firstdv", "maxldv", "minldv", "minfdv", "max_neg_delta_dv"}

\* Literal prefixes of the templates.
ROUT == <<"R", "O", "U", "T", "_">>
SROUT == <<"S", "R", "O", "U", "T", "_">>
SQ == <<"S", "Q", "_">>
TempSQ == <<"#", "S", "Q", "_">>

\* The table the envelope of templates.ruleblock creates.
envelopeTable(name, dialect) ==
    IF dialect = "mssql" THEN SROUT \o name
    ELSE ROUT \o toUpperCase(name)

\* The table a bind fragment selects from (templates.bind).
bindTable(sourceRuleblock, dialect) ==
    IF dialect = "mssql" THEN SROUT \o sourceRuleblock
    ELSE ROUT \o toUpperCase(sourceRuleblock)

\* The identifier of the fragment of a variable: a CTE SQ_<VAR>, or the
\* temp table #SQ_<var> in T-SQL.
fragmentId(variable, dialect) ==
    IF dialect = "mssql" THEN TempSQ \o variable
    ELSE SQ \o toUpperCase(variable)

\* A column of a SELECT list: <name><suffix>.
Column(name, suffix) == [name |-> name, suffix |-> suffix]

\* A fragment: its kind, its identifier, the columns it selects besides eid,
\* the table it reads (bind) and the fragments its FROM joins (compute).
\* The predicate of a fetch is not modelled.
fetchTemplate(ctx, dialect) ==
    [kind |-> "fetch", id |-> fragmentId(ctx.assignedVariable, dialect),
     cols |-> IF ctx.functionName \in TwoColumnTemplates
              THEN <<Column(ctx.assignedVariable, "_val"), Column(ctx.assignedVariable, "_dt")>>
              ELSE <<Column(ctx.assignedVariable, "")>>,
     from |-> NoName, joins |-> <<>>]

\* ctx.conditions.map(c => c.predicate ? WHEN ... THEN ... : ELSE ...): the
\* lines between CASE and END, each with its keyword and the index of the
\* condition whose predicate and value it translates.
caseArms(conditions) ==
    [k \in 1..Len(conditions) |->
        [keyword |-> IF conditions[k].hasPredicate THEN "WHEN" ELSE "ELSE",
         condition |-> k]]

\* templates.compute: the Oracle template reads FROM UEADV alone, the
\* PostgreSQL and T-SQL templates join every ctx.previousVariables.
computeTemplate(ctx, dialect) ==
    [kind |-> "compute", id |-> fragmentId(ctx.assignedVariable, dialect),
     cols |-> <<Column(ctx.assignedVariable, "")>>,
     from |-> NoName,
     arms |-> caseArms(ctx.conditions),
     joins |-> IF dialect = "oracle" THEN <<>>
               ELSE [k \in 1..Len(ctx.previousVariables) |->
                        fragmentId(ctx.previousVariables[k], dialect)]]

bindTemplate(ctx, dialect) ==
    [kind |-> "bind", id |-> fragmentId(ctx.assignedVariable, dialect),
     cols |-> <<Column(ctx.assignedVariable, "")>>,
     from |-> bindTable(ctx.sourceRuleblock, dialect), joins |-> <<>>]

\* columnList of templates.ruleblock.
RECURSIVE columnList(_, _)
columnList(variables, i) ==
    IF i > Len(variables) THEN <<>>
    ELSE (IF variables[i].isDvFunction
          THEN <<Column(variables[i].name, "_val"), Column(variables[i].name, "_dt")>>
          ELSE <<Column(variables[i].name, "")>>)
         \o columnList(variables, i + 1)

\* templates.ruleblock: the envelope around the fragments.
ruleblockTemplate(name, ctes, variables, dialect) ==
    [ruleblock |-> name, creates |-> envelopeTable(name, dialect), ctes |-> ctes,
     columns |-> columnList(variables, 1),
     joins |-> [k \in 1..Len(variables) |-> fragmentId(variables[k].name, dialect)]]

variableNames(variables) == [k \in 1..Len(variables) |-> variables[k].name]

\* The for loop over ruleblock.rules: one fragment and one variable per rule,
\* or the throw.
RECURSIVE generateFragments(_, _, _, _, _)
generateFragments(rules, i, dialect, ctes, variables) ==
    IF i > Len(rules) THEN Ok([ctes |-> ctes, variables |-> variables])
    ELSE LET rule == rules[i] IN
         IF rule.ruleType = "FETCH_STATEMENT"
         THEN IF rule.functionName \in SupportedFunctions
              THEN generateFragments(rules, i + 1, dialect,
                       Append(ctes, fetchTemplate(rule, dialect)),
                       Append(variables, [name |-> rule.assignedVariable,
                                          isDvFunction |-> rule.functionName \in DV_FUNCTIONS]))
              ELSE Err("Unsupported function")
         ELSE IF rule.ruleType = "COMPUTE_STATEMENT"
         THEN generateFragments(rules, i + 1, dialect,
                  Append(ctes, computeTemplate(
                      [assignedVariable |-> rule.assignedVariable,
                       conditions |-> rule.conditions,
                       previousVariables |-> variableNames(variables)], dialect)),
                  Append(variables, [name |-> rule.assignedVariable, isDvFunction |-> FALSE]))
         ELSE generateFragments(rules, i + 1, dialect,
                  Append(ctes, bindTemplate(rule, dialect)),
                  Append(variables, [name |-> rule.assignedVariable, isDvFunction |-> FALSE]))

\* One SQL string: the ruleblock it was generated for, the table its envelope
\* creates, its fragments in rule order and its final SELECT.
generateSqlForRuleblock(rb, dialect) ==
    LET r == generateFragments(rb.rules, 1, dialect, <<>>, <<>>) IN
    IF r.ok
    THEN Ok(ruleblockTemplate(rb.name, r.value.ctes, r.value.variables, dialect))
    ELSE r

\* generateSql(): ruleblocks.map(generateSqlForRuleblock).
RECURSIVE generateSqlFrom(_, _, _, _)
generateSqlFrom(rbs, i, dialect, acc) ==
    IF i > Len(rbs) THEN Ok(acc)
    ELSE LET r == generateSqlForRuleblock(rbs[i], dialect) IN
         IF r.ok THEN generateSqlFrom(rbs, i + 1, dialect, Append(acc, r.value)) ELSE r

generateSql(rbs, dialect) == generateSqlFrom(rbs, 1, dialect, <<>>)

----------------------------------------------------------------------------
(* Manifest *)

rout == <<"r", "o", "u", "t", "_">>

\* getTargetTableName answering with the Oracle name in every dialect.
getTargetTableNameOracle(ruleblockName, dialect) ==
    ROUT \o toUpperCase(ruleblockName)

getTargetTableName(ruleblockName, dialect) ==
    CASE dialect = "mssql" -> SROUT \o ruleblockName
      [] dialect = "oracle" -> ROUT \o toUpperCase(ruleblockName)
      [] dialect = "postgresql" -> rout \o toLowerCase(ruleblockName)
      [] OTHER -> rout \o ruleblockName

graphToAdjacencyList(graph) == graph.edges

\* generateManifest numbering the entries from one.
generateManifestFromOne(orderedRuleblocks, dependencyGraph, dialect) ==
    [dialect |-> dialect,
     totalRuleblocks |-> Len(orderedRuleblocks),
     entries |-> [k \in 1..Len(orderedRuleblocks) |->
        [ruleblockId |-> orderedRuleblocks[k].name,
         executionOrder |-> k,
         targetTable |-> getTargetTableName(orderedRuleblocks[k].name, dialect),
         dependencies |-> edgesGet(dependencyGraph, orderedRuleblocks[k].name),
         sqlIndex |-> k]],
     dependencyGraph |-> graphToAdjacencyList(dependencyGraph)]

\* Entry k (1-based position) carries the 0-based index k - 1.
generateManifest(orderedRuleblocks, dependencyGraph, dialect) ==
    [dialect |-> dialect,
     totalRuleblocks |-> Len(orderedRuleblocks),
     entries |-> [k \in 1..Len(orderedRuleblocks) |->
        [ruleblockId |-> orderedRuleblocks[k].name,
         executionOrder |-> k - 1,
         targetTable |-> getTargetTableName(orderedRuleblocks[k].name, dialect),
         dependencies |-> edgesGet(dependencyGraph, orderedRuleblocks[k].name),
         sqlIndex |-> k - 1]],
     dependencyGraph |-> graphToAdjacencyList(dependencyGraph)]

----------------------------------------------------------------------------
(* Inputs *)

a == <<"a">>
b == <<"b">>
A == <<"A">>

ValidNames == {a, b, A}

\* Ruleblocks that only bind: every valid name with no rule or one bind.
GraphBlocks ==
    [name : ValidNames, text : {<<>>} \cup {<<BindText(n)>> : n \in ValidNames}]

\* Two binds, a fetch next to an ignored segment, and the three failures:
\* a name the schema rejects, a bind the parser rejects, a function the
\* generator rejects.
OtherBlocks ==
    {[name |-> a, text |-> <<BindText(b), BindText(A)>>],
     [name |-> b, text |-> <<FetchText("last"), JunkText>>],
     [name |-> <<"1", "a">>, text |-> <<>>],
     [name |-> b, text |-> <<BadBindText(a)>>],
     [name |-> b, text |-> <<FetchText("bogus")>>]}

InputPool == GraphBlocks \cup OtherBlocks

Options(d, s, i, o) ==
    [dialect |-> d, subset |-> s, pruneInputs |-> i, pruneOutputs |-> o]

OptionPool ==
    {Options(d, Omitted, Omitted, Omitted) : d \in {"oracle", "mssql", "sqlite"}}
    \cup {Options("oracle", Given(<<n>>), Omitted, Omitted) : n \in ValidNames}
    \cup {Options("oracle", Omitted, Omitted, Given(<<a>>)),
          Options("oracle", Omitted, Given(<<b>>), Omitted)}

----------------------------------------------------------------------------
(* compile() *)

NoManifest ==
    [dialect |-> "", totalRuleblocks |-> 0, entries |-> <<>>, dependencyGraph |-> <<>>]

NoResult ==
    [success |-> FALSE, sql |-> <<>>, errors |-> <<>>, warnings |-> <<>>,
     hasManifest |-> FALSE, manifest |-> NoManifest]

\* A catch block that returns without recording the error.
compileCatchDropsError(error) ==
    [success |-> FALSE, sql |-> <<>>, errors |-> <<>>,
     warnings |-> <<>>, hasManifest |-> FALSE, manifest |-> NoManifest]

\* The catch block: what compile returns for a throw in any stage.
compileCatch(error) ==
    [success |-> FALSE, sql |-> <<>>, errors |-> <<[message |-> error]>>,
     warnings |-> <<>>, hasManifest |-> FALSE, manifest |-> NoManifest]

compileReturn(sqlList, manifest) ==
    [success |-> TRUE, sql |-> sqlList, errors |-> <<>>, warnings |-> <<>>,
     hasManifest |-> TRUE, manifest |-> manifest]

Init ==
    /\ ruleblocks \in BoundedSeq(InputPool, MaxBlocks)
    /\ options \in OptionPool
    /\ pc = "validate"
    /\ parsed = <<>>
    /\ linked = <<>>
    /\ transformed = <<>>
    /\ sql = <<>>
    /\ result = NoResult
    /\ arg = <<>>
    /\ ret = <<>>

Throw(error) ==
    /\ pc' = "done"
    /\ result' = compileCatch(error)

Validate ==
    /\ pc = "validate"
    /\ IF /\ \A i \in 1..Len(ruleblocks) : RuleblockInputSchema(ruleblocks[i])
          /\ CompilerOptionsSchema(options)
       THEN pc' = "parse" /\ UNCHANGED result
       ELSE Throw(<<"ZodError">>)
    /\ UNCHANGED <<ruleblocks, options, parsed, linked, transformed, sql>>
    /\ UNCHANGED <<arg, ret>>

Parse ==
    /\ pc = "parse"
    /\ LET r == parse(ruleblocks) IN
       IF r.ok
       THEN parsed' = r.value /\ pc' = "link" /\ UNCHANGED result
       ELSE Throw(r.error) /\ UNCHANGED parsed
    /\ UNCHANGED <<ruleblocks, options, linked, transformed, sql>>
    /\ UNCHANGED <<arg, ret>>

Link ==
    /\ pc = "link"
    /\ LET r == link(parsed) IN
       IF r.ok
       THEN linked' = r.value /\ pc' = "transform" /\ UNCHANGED result
       ELSE Throw(r.error) /\ UNCHANGED linked
    /\ UNCHANGED <<ruleblocks, options, parsed, transformed, sql>>
    /\ UNCHANGED <<arg, ret>>

Transform ==
    /\ pc = "transform"
    /\ transformed' = transform(linked, options)
    /\ pc' = "generate"
    /\ UNCHANGED <<ruleblocks, options, parsed, linked, sql, result>>
    /\ UNCHANGED <<arg, ret>>

\* Stage 4 run over the linked list, as if generation came before transform.
GenerateSqlOnLinked ==
    /\ pc = "generate"
    /\ LET r == generateSql(linked, options.dialect) IN
       IF r.ok
       THEN sql' = r.value /\ pc' = "manifest" /\ UNCHANGED result
       ELSE Throw(r.error) /\ UNCHANGED sql
    /\ UNCHANGED <<ruleblocks, options, parsed, linked, transformed>>
    /\ UNCHANGED <<arg, ret>>

GenerateSql ==
    /\ pc = "generate"
    /\ LET r == generateSql(transformed, options.dialect) IN
       IF r.ok
       THEN sql' = r.value /\ pc' = "manifest" /\ UNCHANGED result
       ELSE Throw(r.error) /\ UNCHANGED sql
    /\ UNCHANGED <<ruleblocks, options, parsed, linked, transformed>>
    /\ UNCHANGED <<arg, ret>>

GenerateManifest ==
    /\ pc = "manifest"
    /\ result' = compileReturn(sql,
           generateManifest(transformed, buildDependencyGraph(transformed),
                            options.dialect))
    /\ pc' = "done"
    /\ UNCHANGED <<ruleblocks, options, parsed, linked, transformed, sql>>
    /\ UNCHANGED <<arg, ret>>

Next == Validate \/ Parse \/ Link \/ Transform \/ GenerateSql \/ GenerateManifest

Spec == Init /\ [][Next]_vars

----------------------------------------------------------------------------
(* transform() called on its own: the argument is any list the linker can
   return for a batch of the input pool. *)

c == <<"c">>

TransformNames == ValidNames \cup {c}

TransformBlocks ==
    [name : TransformNames, text : {<<>>} \cup {<<BindText(n)>> : n \in TransformNames}]
    \cup {[name |-> a, text |-> <<BindText(b), BindText(c)>>]}

LinkedPool ==
    {link(parse(rbs).value).value :
        rbs \in {x \in BoundedSeq(TransformBlocks, MaxBlocks) : link(parse(x).value).ok}}

\* Each list option is omitted, empty, or names one ruleblock.
ListOptions == {Omitted, Given(<<>>)} \cup {Given(<<n>>) : n \in TransformNames}

\* subset may also name two ruleblocks, and so may each pruning list.
SubsetOptions == ListOptions \cup {Given(<<a, c>>)}
PruneOptions == ListOptions \cup {Given(<<b, c>>)}

TransformOptionPool ==
    {Options("oracle", s, i, o) : s \in SubsetOptions, i \in PruneOptions, o \in PruneOptions}

TransformInit ==
    /\ ruleblocks = <<>>
    /\ parsed = <<>>
    /\ linked \in LinkedPool
    /\ options \in TransformOptionPool
    /\ pc = "transform"
    /\ transformed = <<>>
    /\ sql = <<>>
    /\ result = NoResult
    /\ arg = <<>>
    /\ ret = <<>>

TransformCall ==
    /\ pc = "transform"
    /\ transformed' = transform(linked, options)
    /\ pc' = "transformed"
    /\ UNCHANGED <<ruleblocks, options, parsed, linked, sql, result>>
    /\ UNCHANGED <<arg, ret>>

TransformNext == TransformCall

SpecTransform == TransformInit /\ [][TransformNext]_vars

----------------------------------------------------------------------------
(* compile() on ruleblocks with fetch, compute and bind statements, ignored
   segments and directives, in each dialect and with nothing selected. *)

TextPool ==
    {[name |-> a, text |-> <<>>],
     [name |-> b, text |-> <<JunkText>>],
     [name |-> a, text |-> <<JunkText, FetchText("last"), ComputeText(vy)>>],
     [name |-> a, text |-> <<FetchText("lastdv"), JunkText, ComputeText(vy)>>],
     [name |-> a, text |-> <<ComputeText(vy), FetchTextAs(vx, "maxldv")>>],
     [name |-> a, text |-> <<DirectiveText, FetchTextAs(vy, "count")>>],
     [name |-> a, text |-> <<BindTextAs(vx, b), ComputeText(vy)>>],
     [name |-> b, text |-> <<BindTextAs(vy, a)>>],
     [name |-> b, text |-> <<FetchTextAs(vx, "minfdv"), FetchTextAs(vy, "bogus")>>],
     [name |-> b, text |-> <<FetchTextAs(vx, "firstdv"), FetchTextAs(vy, "minldv")>>],
     [name |-> b, text |-> <<FetchTextAs(vx, "max_neg_delta_dv"), DirectiveText, JunkText>>],
     [name |-> b, text |-> <<DirectiveText>>],
     [name |-> b, text |-> <<JunkText, BadBindText(a)>>]}

TextOptionPool ==
    {Options(d, Omitted, Omitted, Omitted) : d \in {"oracle", "mssql", "postgresql"}}

TextInit ==
    /\ ruleblocks \in BoundedSeq(TextPool, MaxBlocks)
    /\ options \in TextOptionPool
    /\ pc = "validate"
    /\ parsed = <<>>
    /\ linked = <<>>
    /\ transformed = <<>>
    /\ sql = <<>>
    /\ result = NoResult
    /\ arg = <<>>
    /\ ret = <<>>

SpecText == TextInit /\ [][Next]_vars

----------------------------------------------------------------------------
(* compile() on one ruleblock whose text is any sequence of statements of
   each kind the statement loop tells apart, in each dialect. *)

\* Largest number of statements in the text.
MaxStatements == 3

StatementPool ==
    {FetchText("last"), BindText(b), BadBindText(b), BadFetchText, FetchWithColonText,
     ComputeText(vy), ComputeTextOf(vy, ElseThenWhen), ComputeTextOf(vy, ElseElse),
     ComputeTextOf(vy, WhenOnly), ComputeTextOf(vy, NoArms), ComputeWithBindText,
     JunkText, DirectiveText}

StatementsInit ==
    /\ ruleblocks \in {<<[name |-> a, text |-> t]>> : t \in BoundedSeq(StatementPool, MaxStatements)}
    /\ options \in TextOptionPool
    /\ pc = "validate"
    /\ parsed = <<>>
    /\ linked = <<>>
    /\ transformed = <<>>
    /\ sql = <<>>
    /\ result = NoResult
    /\ arg = <<>>
    /\ ret = <<>>

SpecStatements == StatementsInit /\ [][Next]_vars

----------------------------------------------------------------------------
(* splitFunctionParams called on its own, on every parameter substring of
   brackets, commas, spaces and one other character. *)

\* Largest number of characters of the substring.
MaxParamLen == 6

ParamChars == {"(", ")", ",", " ", "v"}

SplitInit ==
    /\ arg \in BoundedSeq(ParamChars, MaxParamLen)
    /\ ret = <<>>
    /\ pc = "call"
    /\ ruleblocks = <<>>
    /\ options = Options("oracle", Omitted, Omitted, Omitted)
    /\ parsed = <<>>
    /\ linked = <<>>
    /\ transformed = <<>>
    /\ sql = <<>>
    /\ result = NoResult

SplitCall ==
    /\ pc = "call"
    /\ ret' = splitFunctionParams(arg)
    /\ pc' = "returned"
    /\ UNCHANGED <<ruleblocks, options, parsed, linked, transformed, sql, result, arg>>

SplitNext == SplitCall

SpecSplit == SplitInit /\ [][SplitNext]_vars

----------------------------------------------------------------------------
(* parseComputeStatement called on its own, on every text after "<var> :" of
   braces, arrows, spaces and one other character, and on texts without the
   "<var> :" prefix. *)

\* Largest number of lexemes after the prefix.
MaxBodyLen == 7

BodyChars == {"{", "}", "=>", " ", "p"}

ComputeArgs ==
    {ComputeTextOf(vy, body) : body \in BoundedSeq(BodyChars, MaxBodyLen)}
    \cup {[ComputeTextOf(vy, body) EXCEPT !.shape = "none"] : body \in BoundedSeq(BodyChars, 2)}

ComputeInit ==
    /\ arg \in ComputeArgs
    /\ ret = <<>>
    /\ pc = "call"
    /\ ruleblocks = <<>>
    /\ options = Options("oracle", Omitted, Omitted, Omitted)
    /\ parsed = <<>>
    /\ linked = <<>>
    /\ transformed = <<>>
    /\ sql = <<>>
    /\ result = NoResult

ParseComputeCall ==
    /\ pc = "call"
    /\ ret' = parseComputeStatement(arg)
    /\ pc' = "returned"
    /\ UNCHANGED <<ruleblocks, options, parsed, linked, transformed, sql, result, arg>>

ComputeNext == ParseComputeCall

SpecCompute == ComputeInit /\ [][ComputeNext]_vars

----------------------------------------------------------------------------
(* compile() on ruleblocks that leave isActive out, or set it to true or to
   false, with includeInactive left out, true or false. *)

WithActive(rb, isActive) == [name |-> rb.name, text |-> rb.text, isActive |-> isActive]

ActiveBlocks ==
    {[name |-> a, text |-> <<>>],
     [name |-> a, text |-> <<FetchText("last")>>],
     [name |-> b, text |-> <<BindText(a)>>],
     [name |-> b, text |-> <<FetchText("bogus")>>]}

ActivePool == ActiveBlocks \cup {WithActive(rb, v) : rb \in ActiveBlocks, v \in BOOLEAN}

OptionsIncluding(d, includeInactive) ==
    [dialect |-> d, subset |-> Omitted, pruneInputs |-> Omitted, pruneOutputs |-> Omitted,
     includeInactive |-> includeInactive]

ActiveOptionPool ==
    {Options("oracle", Omitted, Omitted, Omitted)}
    \cup {OptionsIncluding("oracle", v) : v \in BOOLEAN}

ActiveInit ==
    /\ ruleblocks \in BoundedSeq(ActivePool, MaxBlocks)
    /\ options \in ActiveOptionPool
    /\ pc = "validate"
    /\ parsed = <<>>
    /\ linked = <<>>
    /\ transformed = <<>>
    /\ sql = <<>>
    /\ result = NoResult
    /\ arg = <<>>
    /\ ret = <<>>

SpecActive == ActiveInit /\ [][Next]_vars

----------------------------------------------------------------------------
(* Vocabulary of the properties *)

namesOf(rbs) == [i \in 1..Len(rbs) |-> rbs[i].name]

\* Some ruleblock named u binds v, names compared ignoring letter case.
BindsIgnoringCase(rbs, u, v) ==
    \E i \in 1..Len(rbs) :
        /\ toLowerCase(rbs[i].name) = u
        /\ v \in Range(lowerAll(bindSources(rbs[i].rules, 1)))

presentLower(rbs) == {toLowerCase(rbs[i].name) : i \in 1..Len(rbs)}

\* S and every present name reached from S along bind edges, followed from
\* binder to source (forward) or from source to binder.
RECURSIVE BindClosure(_, _, _)
BindClosure(rbs, S, forward) ==
    LET T == S \cup {v \in presentLower(rbs) :
                        \E u \in S : IF forward THEN BindsIgnoringCase(rbs, u, v)
                                     ELSE BindsIgnoringCase(rbs, v, u)}
    IN IF T = S THEN S ELSE BindClosure(rbs, T, forward)

\* The ruleblocks of rbs whose lowercased name is in S.
NamedIn(rbs, S) == {rbs[i] : i \in {k \in 1..Len(rbs) : toLowerCase(rbs[k].name) \in S}}

OnlyPruneOutputs(o) ==
    /\ Len(o.pruneOutputs.list) = 1
    /\ NoneOrEmpty(o.subset)
    /\ NoneOrEmpty(o.pruneInputs)

OnlyPruneInputs(o) ==
    /\ Len(o.pruneInputs.list) = 1
    /\ NoneOrEmpty(o.subset)
    /\ NoneOrEmpty(o.pruneOutputs)

----------------------------------------------------------------------------
(* Claims about transform(), under SpecTransform *)

\* C8: when subset, pruneInputs and pruneOutputs are each omitted or empty,
\* transform returns every linked ruleblock in the same order.
C8_IdentityWhenNothingSelected ==
    (/\ pc = "transformed"
     /\ NoneOrEmpty(options.subset)
     /\ NoneOrEmpty(options.pruneInputs)
     /\ NoneOrEmpty(options.pruneOutputs))
    => transformed = linked

\* An empty subset and an empty pruneInputs were given for three ruleblocks.
C8_Witness ==
    /\ pc = "transformed"
    /\ options.subset = Given(<<>>)
    /\ options.pruneInputs = Given(<<>>)
    /\ options.pruneOutputs = Omitted
    /\ Len(linked) = 3

\* C9: with pruneOutputs = [X] only, the kept ruleblocks are exactly X and
\* every present ruleblock reachable from X along bind edges.
C9_KeepsExactlyAncestors ==
    (pc = "transformed" /\ OnlyPruneOutputs(options))
    => Range(transformed) =
           NamedIn(linked, BindClosure(linked, {toLowerCase(options.pruneOutputs.list[1])}, TRUE))

\* C10: with pruneInputs = [X] only, the kept ruleblocks are exactly X and
\* every present ruleblock from which X is reachable along bind edges.
C10_KeepsExactlyDescendants ==
    (pc = "transformed" /\ OnlyPruneInputs(options))
    => Range(transformed) =
           NamedIn(linked, BindClosure(linked, {toLowerCase(options.pruneInputs.list[1])}, FALSE))

\* Anc(O) and Desc(I) over the bind edges of rbs, as sets of lowercased names.
Anc(rbs, O) == BindClosure(rbs, Range(lowerAll(O)), TRUE)
Desc(rbs, I) == BindClosure(rbs, Range(lowerAll(I)), FALSE)

BothPrunes(o) ==
    /\ ~NoneOrEmpty(o.pruneInputs)
    /\ ~NoneOrEmpty(o.pruneOutputs)
    /\ NoneOrEmpty(o.subset)

\* C11: with pruneInputs = I and pruneOutputs = O both non-empty, the kept
\* ruleblocks are exactly those named in Anc(O) intersected with Desc(I).
C11_KeepsIntersection ==
    (pc = "transformed" /\ BothPrunes(options))
    => Range(transformed) =
           NamedIn(linked, Anc(linked, options.pruneOutputs.list)
                           \cap Desc(linked, options.pruneInputs.list))

\* The list left after subset selection.
afterSubset == selectSubset(linked, options.subset)

\* The names pruning may keep, by the closures over the bind edges of rbs.
MayKeep(rbs, o) ==
    (IF NoneOrEmpty(o.pruneOutputs) THEN presentLower(rbs) ELSE Anc(rbs, o.pruneOutputs.list))
    \cap
    (IF NoneOrEmpty(o.pruneInputs) THEN presentLower(rbs) ELSE Desc(rbs, o.pruneInputs.list))

\* C12: transform equals pruneRuleblocks applied to selectSubset(linked, subset),
\* and it keeps no ruleblock outside the closures taken over the bind edges of
\* the subset-filtered list.
C12_SubsetThenPrune ==
    pc = "transformed" =>
        /\ transformed = pruneRuleblocks(afterSubset, options.pruneInputs, options.pruneOutputs)
        /\ Range(transformed) \subseteq NamedIn(afterSubset, MayKeep(afterSubset, options))

\* subset removed the middle of a bind path from the pruneOutputs root to a
\* ruleblock that subset kept, and that ruleblock is not in the result.
C12_Witness ==
    /\ pc = "transformed"
    /\ Len(options.subset.list) = 2
    /\ Len(options.pruneOutputs.list) = 1
    /\ ~options.pruneInputs.given
    /\ Len(afterSubset) = 2
    /\ Len(transformed) = 1
    /\ presentLower(afterSubset) \subseteq Anc(linked, options.pruneOutputs.list)

RECURSIVE IsSubsequence(_, _)
IsSubsequence(s, t) ==
    IF s = <<>> THEN TRUE
    ELSE IF t = <<>> THEN FALSE
    ELSE IF Head(s) = Head(t) THEN IsSubsequence(Tail(s), Tail(t))
    ELSE IsSubsequence(s, Tail(t))

\* C13: for any subset, pruneInputs and pruneOutputs the transformed list is a
\* subsequence of the linked list.
C13_OnlyFilters ==
    pc = "transformed" => IsSubsequence(transformed, linked)

\* Subset and pruning together dropped the middle one of three ruleblocks.
C13_Witness ==
    /\ pc = "transformed"
    /\ Len(linked) = 3
    /\ ~NoneOrEmpty(options.subset)
    /\ ~NoneOrEmpty(options.pruneOutputs)
    /\ transformed = <<linked[1], linked[3]>>

----------------------------------------------------------------------------
(* Claims about compile(), under Spec *)

Succeeded == pc = "done" /\ result.success
Failed == pc = "done" /\ ~result.success

sqlNames == [k \in 1..Len(result.sql) |-> result.sql[k].ruleblock]
entryIds == [k \in 1..Len(result.manifest.entries) |-> result.manifest.entries[k].ruleblockId]

bindsOf(rb) == Range(bindSources(rb.rules, 1))

\* C1: in a successful compile, a ruleblock that an emitted ruleblock binds and
\* that is itself emitted comes earlier in sql and in manifest.entries.
C1_SourceBeforeBinder ==
    Succeeded =>
        \A i \in 1..Len(transformed) : \A src \in bindsOf(transformed[i]) :
            (src # transformed[i].name /\ src \in Range(sqlNames))
            => /\ IndexOf(sqlNames, transformed[i].name) > 0
               /\ IndexOf(sqlNames, src) < IndexOf(sqlNames, transformed[i].name)
               /\ IndexOf(entryIds, src) > 0
               /\ IndexOf(entryIds, src) < IndexOf(entryIds, transformed[i].name)

\* A successful compile of a batch that lists a binder before its source.
C1_Witness ==
    /\ Succeeded
    /\ \E i, j \in 1..Len(parsed) :
        /\ i < j
        /\ parsed[i].name # parsed[j].name
        /\ parsed[j].name \in bindsOf(parsed[i])
        /\ {parsed[i].name, parsed[j].name} \subseteq Range(sqlNames)

\* Some ruleblock named x binds y, and a ruleblock named y is in the batch.
BindEdge(rbs, x, y) ==
    /\ \E i \in 1..Len(rbs) : rbs[i].name = x /\ y \in bindsOf(rbs[i])
    /\ y \in Range(namesOf(rbs))

RECURSIVE ReachFrom(_, _)
ReachFrom(rbs, S) ==
    LET T == S \cup {y \in Range(namesOf(rbs)) : \E x \in S : BindEdge(rbs, x, y)}
    IN IF T = S THEN S ELSE ReachFrom(rbs, T)

\* x depends on y, directly or transitively.
DependsOn(rbs, x, y) ==
    y \in ReachFrom(rbs, {z \in Range(namesOf(rbs)) : BindEdge(rbs, x, z)})

Unrelated(rbs, x, y) == x # y /\ ~DependsOn(rbs, x, y) /\ ~DependsOn(rbs, y, x)

UniqueNames(rbs) == \A i, j \in 1..Len(rbs) : rbs[i].name = rbs[j].name => i = j

\* The linker has returned (the batch is acyclic).
Linked == pc = "transform"

KeepsInputOrder(rbs, x, y) ==
    /\ Unrelated(rbs, x, y)
    /\ IndexOf(namesOf(rbs), x) < IndexOf(namesOf(rbs), y)
    /\ \A z \in Range(namesOf(rbs)) :
         IndexOf(namesOf(rbs), z) < IndexOf(namesOf(rbs), x) => ~DependsOn(rbs, z, y)

Accepted ==
    /\ \A i \in 1..Len(ruleblocks) : RuleblockInputSchema(ruleblocks[i])
    /\ CompilerOptionsSchema(options)
    /\ parse(ruleblocks).ok

\* C3: when the bind edges among input ruleblocks form a cycle, compile returns
\* success=false with exactly one error that starts with 'Circular dependency'.
C3_CycleIsReported ==
    (/\ pc = "done"
     /\ Accepted
     /\ \E x \in Range(namesOf(parse(ruleblocks).value)) :
            DependsOn(parse(ruleblocks).value, x, x))
    => /\ ~result.success
       /\ Len(result.errors) = 1
       /\ result.errors[1].message[1] = "Circular dependency"

\* C4: a failure in any stage is returned as success=false with an empty sql
\* array, exactly one error and no manifest.
C4_FailureByValue ==
    Failed =>
        /\ result.sql = <<>>
        /\ Len(result.errors) = 1
        /\ ~result.hasManifest

\* Generation threw at a later ruleblock after the first one was generated.
C4_Witness ==
    /\ Failed
    /\ Len(transformed) >= 2
    /\ generateSqlForRuleblock(transformed[1], options.dialect).ok
    /\ ~generateSql(transformed, options.dialect).ok

\* C5: in a successful compile sql, manifest.entries and the transformed list
\* have the same length, and entry i has sqlIndex = executionOrder = i and
\* names the ruleblock sql[i] was generated for.
C5_ManifestMatchesSql ==
    Succeeded =>
        /\ Len(result.sql) = Len(transformed)
        /\ Len(result.manifest.entries) = Len(transformed)
        /\ \A k \in 1..Len(transformed) :
            /\ result.manifest.entries[k].sqlIndex = k - 1
            /\ result.manifest.entries[k].executionOrder = k - 1
            /\ result.manifest.entries[k].ruleblockId = transformed[k].name
            /\ result.sql[k].ruleblock = transformed[k].name

\* A successful compile that emits two ruleblocks after dropping another.
C5_Witness ==
    /\ Succeeded
    /\ Len(result.sql) = 2
    /\ Len(linked) = 3

\* C6: in a successful compile every dependencies list and every adjacency
\* list of dependencyGraph names only ruleblocks of the transformed list.
C6_DependenciesArePresent ==
    Succeeded =>
        /\ \A k \in 1..Len(result.manifest.entries) :
             Range(result.manifest.entries[k].dependencies) \subseteq Range(namesOf(transformed))
        /\ \A n \in DOMAIN result.manifest.dependencyGraph :
             Range(result.manifest.dependencyGraph[n]) \subseteq Range(namesOf(transformed))

\* C7: with subset = [X] and no pruning, a successful compile yields one SQL
\* string if some input name equals X ignoring case, and none otherwise.
C7_SubsetOfOne ==
    (/\ Succeeded
     /\ options.subset.given /\ Len(options.subset.list) = 1
     /\ ~options.pruneInputs.given /\ ~options.pruneOutputs.given)
    => Len(result.sql) =
         (IF \E i \in 1..Len(ruleblocks) :
                toLowerCase(ruleblocks[i].name) = toLowerCase(options.subset.list[1])
          THEN 1 ELSE 0)

\* The name grammar [a-z_][a-z0-9_]*, of length 1..100.
LowercaseName(name) ==
    /\ Len(name) >= 1 /\ Len(name) <= 100
    /\ IsLower(name[1]) \/ name[1] = "_"
    /\ \A k \in 2..Len(name) : IsLower(name[k]) \/ name[k] \in Digits \/ name[k] = "_"

\* C14: a batch holding a ruleblock whose name is outside the grammar
\* [a-z_][a-z0-9_]* or the length 1..100 is rejected: compile returns
\* success=false with a single error.
C14_NameGrammarEnforced ==
    (pc = "done" /\ \E i \in 1..Len(ruleblocks) : ~LowercaseName(ruleblocks[i].name))
    => ~result.success /\ Len(result.errors) = 1

\* A bind rule whose source names no ruleblock of the batch.
IsAbsentBind(rbs, rule) ==
    rule.ruleType = "BIND_STATEMENT" /\ rule.sourceRuleblock \notin Range(namesOf(rbs))

\* The batch with those binds taken out.
withoutAbsentBinds(rbs) ==
    [k \in 1..Len(rbs) |->
        [rbs[k] EXCEPT !.rules = SelectSeq(@, LAMBDA rule : ~IsAbsentBind(rbs, rule))]]

\* Cycle detection and the order of the ruleblocks are what they are without
\* the binds to absent sources.
C16_LinksAsWithout ==
    /\ pc = "transform"
       => /\ link(withoutAbsentBinds(parsed)).ok
          /\ namesOf(linked) = namesOf(link(withoutAbsentBinds(parsed)).value)
    /\ (pc = "done" /\ Accepted /\ ~link(parse(ruleblocks).value).ok)
       => ~link(withoutAbsentBinds(parse(ruleblocks).value)).ok

\* The ruleblock of a bind to an absent source is emitted with a bind fragment
\* that reads the source's target table.
C16_EmittedWithBind ==
    Succeeded =>
        \A k \in 1..Len(transformed) : \A i \in 1..Len(transformed[k].rules) :
            IsAbsentBind(parsed, transformed[k].rules[i])
            => /\ result.sql[k].ruleblock = transformed[k].name
               /\ result.sql[k].ctes[i].kind = "bind"
               /\ result.sql[k].ctes[i].from =
                      envelopeTable(transformed[k].rules[i].sourceRuleblock, options.dialect)

\* The absent source is in no adjacency list of the dependency graph.
C16_NoEdge ==
    Succeeded =>
        \A k \in 1..Len(transformed) : \A i \in 1..Len(transformed[k].rules) :
            IsAbsentBind(parsed, transformed[k].rules[i])
            => /\ transformed[k].rules[i].sourceRuleblock
                      \notin Range(result.manifest.entries[k].dependencies)
               /\ transformed[k].rules[i].sourceRuleblock
                      \notin Range(result.manifest.dependencyGraph[transformed[k].name])

\* C16: a bind to a source that is not in the batch does not fail the compile,
\* its ruleblock is emitted with a bind fragment reading the source's target
\* table, the bind adds no edge to the dependency graph, and cycle detection
\* and the order of the present ruleblocks are as if the bind were not there.
C16_AbsentBindIsInert ==
    C16_LinksAsWithout /\ C16_EmittedWithBind /\ C16_NoEdge

----------------------------------------------------------------------------
(* Claims about parsing and generation, under SpecText *)

\* A segment with neither '=>' nor ':' that does not start with '#'.
IsIgnored(stmt) == ~stmt.arrow /\ ~stmt.colon /\ ~stmt.hash

HasIgnored(rb) == \E i \in 1..Len(rb.text) : IsIgnored(rb.text[i])

\* The batch with every such segment taken out of every text.
withoutIgnored(rbs) ==
    [k \in 1..Len(rbs) |->
        [rbs[k] EXCEPT !.text = SelectSeq(@, LAMBDA stmt : ~IsIgnored(stmt))]]

\* C15: a segment with neither '=>' nor ':' and no leading '#' yields no rule
\* and no error (the batch parses exactly as it does without the segment), no
\* warning, and its ruleblock still has exactly one SQL string.
C15_IgnoredSegmentIsDropped ==
    /\ pc = "link" => parsed = parse(withoutIgnored(ruleblocks)).value
    /\ (pc \notin {"validate", "parse"}) => (parse(ruleblocks).ok <=> parse(withoutIgnored(ruleblocks)).ok)
    /\ Succeeded =>
         /\ result.warnings = <<>>
         /\ \A i \in 1..Len(ruleblocks) :
              HasIgnored(ruleblocks[i])
              => Cardinality({k \in 1..Len(result.sql) :
                                 result.sql[k].ruleblock = ruleblocks[i].name}) = 1

\* A successful compile of a ruleblock holding nothing but an ignored segment
\* and of one with an ignored segment between two statements.
C15_Witness ==
    /\ Succeeded
    /\ Len(result.sql) = 2
    /\ \E i, j \in 1..Len(ruleblocks) :
         /\ ruleblocks[i].text = <<JunkText>>
         /\ Len(ruleblocks[j].text) = 3 /\ IsIgnored(ruleblocks[j].text[2])
         /\ \E k \in 1..2 : result.sql[k].ruleblock = ruleblocks[i].name /\ result.sql[k].ctes = <<>>
         /\ \E k \in 1..2 : result.sql[k].ruleblock = ruleblocks[j].name /\ Len(result.sql[k].ctes) = 2

\* The dv-family of fetch functions.
DvFamily == {"lastdv", "firstdv", "maxldv", "minldv", "minfdv", "max_neg_delta_dv"}

\* The columns a rule contributes: <var>_val and <var>_dt for a dv-family
\* fetch, <var> for any other rule.
columnsOf(rule) ==
    IF rule.ruleType = "FETCH_STATEMENT" /\ rule.functionName \in DvFamily
    THEN <<Column(rule.assignedVariable, "_val"), Column(rule.assignedVariable, "_dt")>>
    ELSE <<Column(rule.assignedVariable, "")>>

RECURSIVE columnsOfAll(_, _)
columnsOfAll(rules, i) ==
    IF i > Len(rules) THEN <<>> ELSE columnsOf(rules[i]) \o columnsOfAll(rules, i + 1)

fragmentOf(rb, j, dialect) == fragmentId(rb.rules[j].assignedVariable, dialect)

\* C19: in every dialect the fragment of a compute rule at position i joins
\* the fragment of every variable assigned by a rule j < i of its ruleblock.
C19_ComputeJoinsEarlier ==
    Succeeded =>
        \A k \in 1..Len(transformed) : \A i \in 1..Len(transformed[k].rules) :
            transformed[k].rules[i].ruleType = "COMPUTE_STATEMENT"
            => \A j \in 1..(i - 1) :
                 fragmentOf(transformed[k], j, options.dialect)
                     \in Range(result.sql[k].ctes[i].joins)

\* C20: a successful compile that emits a ruleblock holding an ignored '#'
\* directive carries a warning in result.warnings.
C20_DirectiveWarns ==
    (/\ Succeeded
     /\ \E i \in 1..Len(ruleblocks) :
          /\ \E n \in 1..Len(ruleblocks[i].text) : ruleblocks[i].text[n].hash
          /\ \E k \in 1..Len(result.sql) : result.sql[k].ruleblock = ruleblocks[i].name)
    => Len(result.warnings) >= 1

\* The SQL string a manifest entry points at.
sqlOf(entry) == result.sql[entry.sqlIndex + 1]

\* The tables read by the bind fragments, in any emitted ruleblock, of the
\* binds whose source is the ruleblock named name.
bindTablesOf(name) ==
    UNION {{result.sql[m].ctes[i].from :
                i \in {n \in 1..Len(transformed[m].rules) :
                         /\ transformed[m].rules[n].ruleType = "BIND_STATEMENT"
                         /\ transformed[m].rules[n].sourceRuleblock = name}} :
           m \in 1..Len(transformed)}

----------------------------------------------------------------------------
(* Claims about the pipeline as a whole, under Spec *)

\* The inputs pass the two schemas.
Valid ==
    /\ \A i \in 1..Len(ruleblocks) : RuleblockInputSchema(ruleblocks[i])
    /\ CompilerOptionsSchema(options)

\* compile failed with this message as its only error.
FailedWith(error) ==
    /\ ~result.success
    /\ result.errors = <<[message |-> error]>>

\* C21: the stages run in the order validate, parse, link, transform,
\* generate, manifest, each over the whole batch: the error of the first stage
\* that fails on any ruleblock, excluded by subset or pruning or not, is the
\* result of compile, while generation fails only for a ruleblock that
\* transform kept.
C21_StagesInOrder ==
    pc = "done" =>
        LET p == parse(ruleblocks)
            l == link(p.value)
            t == transform(l.value, options)
            g == generateSql(t, options.dialect)
        IN /\ ~Valid => FailedWith(<<"ZodError">>)
           /\ (Valid /\ ~p.ok) => FailedWith(p.error)
           /\ (Valid /\ p.ok /\ ~l.ok) => FailedWith(l.error)
           /\ (Valid /\ p.ok /\ l.ok) =>
                /\ result.success
                   <=> \A k \in 1..Len(t) : generateSqlForRuleblock(t[k], options.dialect).ok
                /\ ~result.success => FailedWith(g.error)
                /\ result.success => result.sql = g.value

\* A compile succeeded although a ruleblock that subset excluded calls a
\* function the generator does not support.
C21_Witness ==
    /\ Succeeded
    /\ ~NoneOrEmpty(options.subset)
    /\ Len(transformed) >= 1
    /\ \E i \in 1..Len(linked) :
         /\ linked[i] \notin Range(transformed)
         /\ ~generateSqlForRuleblock(linked[i], options.dialect).ok

\* The number of positions of s that hold x.
Count(s, x) == Cardinality({i \in 1..Len(s) : s[i] = x})

IsPermutation(s, t) ==
    /\ Len(s) = Len(t)
    /\ \A x \in Range(s) \cup Range(t) : Count(s, x) = Count(t, x)

\* C22: for an acyclic batch accepted by validation the linker's output is a
\* permutation of its input: every input ruleblock appears exactly once.
C22_LinkerPermutes ==
    Linked => IsPermutation(linked, parsed)

\* 'x depends on y' as the linker sees it: y is in the edge set that
\* buildDependencyGraph holds for x.
LinkerEdge(rbs, x, y) ==
    y \in Range(edgesGet(buildDependencyGraph(rbs), x))

\* 'x depends on y' as the pruner sees it: the key of y is in the set that
\* buildDependencyMap holds under the key of x.
PrunerEdge(rbs, x, y) ==
    LET depMap == buildDependencyMap(rbs) IN
    /\ toLowerCase(x) \in DOMAIN depMap.map
    /\ toLowerCase(y) \in Range(depMap.map[toLowerCase(x)])

\* C23: for every accepted batch and every two ruleblocks X, Y of it, 'X
\* depends on Y' is an edge of the graph the linker sorts by iff it is an edge
\* of the map the pruner walks, also when names and bind sources differ only
\* in letter case.
C23_LinkerAndPrunerAgree ==
    Linked =>
        \A x, y \in Range(namesOf(parsed)) :
            LinkerEdge(parsed, x, y) <=> PrunerEdge(linked, x, y)

\* compile failed with the error of the linker.
CycleReported ==
    /\ Failed
    /\ Len(result.errors) >= 1
    /\ result.errors[1].message[1] = "Circular dependency"

\* The name list of the report, before it is joined with ' -> '.
reportedCycle == result.errors[1].message[3]

\* When the bind edges of an accepted batch hold a cycle, one error is
\* returned and it is the report of a cycle.
C25_ReportedWhenExists ==
    (/\ pc = "done"
     /\ Accepted
     /\ \E x \in Range(namesOf(parse(ruleblocks).value)) :
            DependsOn(parse(ruleblocks).value, x, x))
    => CycleReported /\ Len(result.errors) = 1

\* A reported list starts and ends with the same name and every consecutive
\* pair (n, m) of it is a bind of a ruleblock named n to m.
C25_ReportIsGenuine ==
    CycleReported =>
        /\ Len(result.errors) = 1
        /\ result.errors[1].message = <<"Circular dependency", " detected: ", reportedCycle>>
        /\ Len(reportedCycle) >= 2
        /\ reportedCycle[1] = reportedCycle[Len(reportedCycle)]
        /\ \A k \in 1..(Len(reportedCycle) - 1) :
             \E i \in 1..Len(parsed) :
                /\ parsed[i].name = reportedCycle[k]
                /\ reportedCycle[k + 1] \in bindsOf(parsed[i])

\* C25: when a cycle exists exactly one cycle is reported, and the reported
\* name list is a genuine cycle of the bind graph: it starts and ends with the
\* same name and every consecutive pair is a bind edge.
C25_OneGenuineCycle ==
    C25_ReportedWhenExists /\ C25_ReportIsGenuine

\* C26: in a successful compile no two manifest entries share a targetTable
\* and no two SQL strings create the same table.
C26_DistinctTargetTables ==
    Succeeded =>
        /\ \A i, j \in 1..Len(result.manifest.entries) :
             result.manifest.entries[i].targetTable = result.manifest.entries[j].targetTable
             => i = j
        /\ \A i, j \in 1..Len(result.sql) :
             result.sql[i].creates = result.sql[j].creates => i = j

----------------------------------------------------------------------------
(* Claims about statement classification and compute fragments, under
   SpecStatements *)

\* The decision table: the kind of rule a statement is to become.
Classify(stmt) ==
    IF stmt.arrow /\ ~stmt.colon /\ stmt.bindCall THEN "BIND_STATEMENT"
    ELSE IF stmt.arrow /\ ~stmt.colon THEN "FETCH_STATEMENT"
    ELSE IF stmt.colon THEN "COMPUTE_STATEMENT"
    ELSE "none"

\* The statement has the shape of its kind: the bind pattern, the fetch
\* pattern, or "<var> :" followed by at least one {predicate => value} group.
HasShapeOf(stmt, kind) ==
    CASE kind = "BIND_STATEMENT" -> stmt.shape = "bind"
      [] kind = "FETCH_STATEMENT" -> stmt.shape = "fetch"
      [] kind = "COMPUTE_STATEMENT" ->
            /\ stmt.shape = "compute"
            /\ \E i, j, k \in 1..Len(stmt.body) :
                 /\ i < j /\ j < k
                 /\ stmt.body[i] = "{" /\ stmt.body[j] = "=>" /\ stmt.body[k] = "}"
                 /\ \A m \in i..(k - 1) : stmt.body[m] # "}"
      [] OTHER -> FALSE

\* The statements of a text that the table gives a kind.
classified(text) ==
    SelectSeq(text, LAMBDA stmt : ~stmt.hash /\ Classify(stmt) # "none")

\* C24: the rules of a parsed ruleblock are its non-directive statements that
\* the decision table gives a kind, in order and each with that kind, and a
\* compile fails in the parser exactly when its text holds a statement without
\* the shape of its kind.
C24_DecisionTable ==
    LET stmts == classified(ruleblocks[1].text) IN
    /\ pc \notin {"validate", "parse", "done"} =>
         /\ Len(parsed[1].rules) = Len(stmts)
         /\ \A k \in 1..Len(stmts) :
              /\ parsed[1].rules[k].ruleType = Classify(stmts[k])
              /\ parsed[1].rules[k].assignedVariable = stmts[k].var
    /\ pc = "done" =>
         ((\E k \in 1..Len(stmts) : ~HasShapeOf(stmts[k], Classify(stmts[k])))
          <=> /\ ~result.success
              /\ Len(result.errors) = 1
              /\ result.errors[1].message[1] \in
                   {"Invalid bind statement", "Invalid fetch statement",
                    "Invalid compute statement", "No conditions found in compute statement"})

\* A text with a bind, a fetch and a compute statement that holds '.bind()'
\* was parsed into a bind, a fetch and a compute rule.
C24_Witness ==
    /\ pc = "link"
    /\ Len(ruleblocks[1].text) = 3
    /\ ruleblocks[1].text[3].bindCall /\ ruleblocks[1].text[3].colon
    /\ Len(parsed[1].rules) = 3
    /\ [k \in 1..3 |-> parsed[1].rules[k].ruleType]
         = <<"BIND_STATEMENT", "FETCH_STATEMENT", "COMPUTE_STATEMENT">>

\* The keywords of the arms of a compute fragment, in the order emitted.
keywordsOf(fragment) == [k \in 1..Len(fragment.arms) |-> fragment.arms[k].keyword]

\* The conditions of rule with a predicate, as indices in textual order.
predicated(rule) ==
    SelectSeq([k \in 1..Len(rule.conditions) |-> k],
              LAMBDA k : rule.conditions[k].hasPredicate)

\* C27: in the CASE expression of every compute rule the predicated arms are
\* the WHEN branches, in textual order; ELSE appears at most once, after
\* every WHEN, and carries an arm without predicate.
C27_CaseKeepsFirstMatch ==
    Succeeded =>
        \A i \in 1..Len(transformed[1].rules) :
            transformed[1].rules[i].ruleType = "COMPUTE_STATEMENT" =>
                LET rule == transformed[1].rules[i]
                    arms == result.sql[1].ctes[i].arms
                    whens == SelectSeq(arms, LAMBDA arm : arm.keyword = "WHEN")
                    elses == SelectSeq(arms, LAMBDA arm : arm.keyword = "ELSE")
                IN /\ [k \in 1..Len(whens) |-> whens[k].condition] = predicated(rule)
                   /\ Len(elses) <= 1
                   /\ \A k \in 1..Len(elses) : ~rule.conditions[elses[k].condition].hasPredicate
                   /\ \A k \in 1..Len(arms) :
                        arms[k].keyword = "ELSE" => k = Len(arms)

----------------------------------------------------------------------------
(* Claims about splitFunctionParams, under SpecSplit *)

\* The bracket depth at index i: the '(' before it less the ')' before it.
depthAt(s, i) ==
    Cardinality({k \in 1..(i - 1) : s[k] = "("}) - Cardinality({k \in 1..(i - 1) : s[k] = ")"})

\* The commas of s at bracket depth zero, and those deeper or shallower.
topCommas(s) == {i \in 1..Len(s) : s[i] = "," /\ depthAt(s, i) = 0}
innerCommas(s) == {i \in 1..Len(s) : s[i] = "," /\ depthAt(s, i) # 0}

\* Array.prototype.join(',').
RECURSIVE join(_)
join(parts) ==
    IF parts = <<>> THEN <<>>
    ELSE IF Len(parts) = 1 THEN parts[1]
    ELSE parts[1] \o <<",">> \o join(Tail(parts))

\* s cut at the indices of cuts, each piece without its surrounding spaces.
RECURSIVE piecesFrom(_, _, _)
piecesFrom(s, cuts, from) ==
    IF \E i \in cuts : i >= from
    THEN LET next == CHOOSE i \in cuts : i >= from /\ \A j \in cuts : j >= from => i <= j
         IN <<trim(SubSeq(s, from, next - 1))>> \o piecesFrom(s, cuts, next + 1)
    ELSE <<trim(SubSeq(s, from, Len(s)))>>

\* The commas of the substring that end up inside a returned parameter are
\* exactly its commas at a bracket depth other than zero.
C28_SplitsAtDepthZero ==
    pc = "returned" =>
        /\ Len(ret) <= Cardinality(topCommas(arg)) + 1
        /\ Cardinality(innerCommas(join(ret))) = Cardinality(innerCommas(arg))
        /\ topCommas(join(ret)) # {} => Len(ret) = Cardinality(topCommas(join(ret))) + 1

\* The returned parameters joined with commas are the substring, spaces
\* around each parameter aside.
C28_RoundTrip ==
    pc = "returned" => join(ret) = join(piecesFrom(arg, topCommas(arg), 1))

\* C28: the parameter substring is split on a comma only when the bracket
\* depth at that comma is zero, and joining the returned parameters with
\* commas reproduces the substring up to surrounding whitespace.
C28_SplitRoundTrips ==
    C28_SplitsAtDepthZero /\ C28_RoundTrip

----------------------------------------------------------------------------
(* Claims about parseComputeStatement, under SpecCompute *)

\* The '{predicate => value}' groups of a text, found brace by brace: up to
\* each '}' in turn, the first '{' with an '=>' after it opens a group, whose
\* predicate side runs to that '=>' and whose value side runs to the '}'.
RECURSIVE groupsFrom(_, _)
groupsFrom(s, from) ==
    IF \A k \in from..Len(s) : s[k] # "}" THEN <<>>
    ELSE LET close == CHOOSE k \in from..Len(s) :
                          s[k] = "}" /\ \A m \in from..(k - 1) : s[m] # "}"
             opens == {i \in from..(close - 1) :
                          s[i] = "{" /\ \E j \in (i + 1)..(close - 1) : s[j] = "=>"}
         IN IF opens = {} THEN groupsFrom(s, close + 1)
            ELSE LET open == CHOOSE i \in opens : \A n \in opens : i <= n
                     arrowAt == CHOOSE j \in (open + 1)..(close - 1) :
                                   s[j] = "=>" /\ \A m \in (open + 1)..(j - 1) : s[m] # "=>"
                 IN <<[predicateSide |-> SubSeq(s, open + 1, arrowAt - 1),
                       valueSide |-> SubSeq(s, arrowAt + 1, close - 1)]>>
                    \o groupsFrom(s, close + 1)

\* A side is empty when it holds nothing but spaces.
IsEmptySide(side) == \A k \in 1..Len(side) : side[k] = " "

\* C29: parseComputeStatement returns one condition per '{predicate => value}'
\* group, in textual order, with the predicate absent exactly for the groups
\* whose predicate side is empty; it fails with an error when the text holds
\* no group or lacks the "<var> :" prefix, and never returns an empty list.
C29_OneConditionPerGroup ==
    pc = "returned" =>
        LET groups == groupsFrom(arg.body, 1) IN
        IF arg.shape = "compute" /\ Len(groups) >= 1
        THEN /\ ret.ok
             /\ ret.value.assignedVariable = arg.var
             /\ Len(ret.value.conditions) = Len(groups)
             /\ \A k \in 1..Len(groups) :
                  /\ ret.value.conditions[k].hasPredicate <=> ~IsEmptySide(groups[k].predicateSide)
                  /\ ret.value.conditions[k].predicate = trim(groups[k].predicateSide)
                  /\ ret.value.conditions[k].returnValue = trim(groups[k].valueSide)
        ELSE /\ ~ret.ok
             /\ ret.error[1] = (IF arg.shape = "compute"
                                THEN "No conditions found in compute statement"
                                ELSE "Invalid compute statement")

\* Two conditions were returned, the first without predicate, the second
\* with one.
C29_Witness ==
    /\ pc = "returned"
    /\ ret.ok
    /\ Len(ret.value.conditions) = 2
    /\ ~ret.value.conditions[1].hasPredicate
    /\ ret.value.conditions[2].hasPredicate

----------------------------------------------------------------------------
(* Claims about isActive and includeInactive, under SpecActive *)

\* What compile returns for a batch and options, stage by stage.
compileOf(rbs, o) ==
    IF ~(/\ \A i \in 1..Len(rbs) : RuleblockInputSchema(rbs[i])
         /\ CompilerOptionsSchema(o))
    THEN compileCatch(<<"ZodError">>)
    ELSE LET p == parse(rbs) IN
         IF ~p.ok THEN compileCatch(p.error)
         ELSE LET l == link(p.value) IN
              IF ~l.ok THEN compileCatch(l.error)
              ELSE LET t == transform(l.value, o)
                       g == generateSql(t, o.dialect)
                   IN IF ~g.ok THEN compileCatch(g.error)
                      ELSE compileReturn(g.value,
                               generateManifest(t, buildDependencyGraph(t), o.dialect))

\* The batch with every ruleblock active, the options without includeInactive.
allActive(rbs) == [k \in 1..Len(rbs) |-> WithActive(rbs[k], TRUE)]
withoutIncludeInactive(o) == Options(o.dialect, o.subset, o.pruneInputs, o.pruneOutputs)

\* C30: compile returns the same success flag, sql list, errors and manifest
\* as it does for the same batch with every isActive true and includeInactive
\* left out.
C30_ActiveFlagsIgnored ==
    pc = "done" => result = compileOf(allActive(ruleblocks), withoutIncludeInactive(options))

\* A compile with includeInactive false emitted both ruleblocks of a batch
\* whose first one has isActive false.
C30_Witness ==
    /\ Succeeded
    /\ "includeInactive" \in DOMAIN options
    /\ ~options.includeInactive
    /\ Len(ruleblocks) = 2
    /\ ruleblocks[1] = WithActive([name |-> a, text |-> <<FetchText("last")>>], FALSE)
    /\ Len(result.sql) = 2
    /\ result.sql[1].ruleblock = a

====
